---------------------------- MODULE Spec2Model ----------------------------
(***************************************************************************)
(* A model of KiCAD_autoBOM: the BOM aggregation of parsing.py, the        *)
(* range compression of utils.py and the reference renumbering of          *)
(* condensing.py (compress_references / replace_references).               *)
(*                                                                         *)
(* A reference designator such as "R22" is the record                      *)
(*   [pre |-> "R", ann |-> TRUE, num |-> 22]                               *)
(* and the unannotated designator "R?" is                                  *)
(*   [pre |-> "R", ann |-> FALSE, num |-> 0].                              *)
(* Formatting f"{prefix}{n}" builds the first kind of record; the parsers  *)
(* of the program (int(v[i:]), str.isnumeric) read it back, each in its    *)
(* own way.                                                                *)
(***************************************************************************)
EXTENDS Integers, Sequences, FiniteSets, TLC

VARIABLES
    fs,          \* the project folder: file name -> content, or NoFile
    orig,        \* the folder as it was when the run started (history)
    writes,      \* per sheet file, the number of writes started (history)
    visits,      \* per sheet file, the number of replace_references calls on it (history)
    stack,       \* the call stack of replace_references, innermost frame last
    pc,          \* where the run of compress_references stands
    base_df,     \* the raw component rows (parse_file's dataframe)
    rename_map,  \* the rename dataframe handed to replace_references
    condensed,   \* the result of _condense_df
    values,      \* the argument of _sort_as_numeric
    out          \* the result of _sort_as_numeric

vars == <<fs, orig, writes, visits, stack, pc, base_df, rename_map, condensed, values, out>>

-----------------------------------------------------------------------------
(* Strings are compared by Python's str order; StrOrder lists, in that     *)
(* order, every string the model compares.                                 *)
StrOrder == <<"-", "0402", "0603", "10k", "16V", "1k", "C", "R", "cap", "res">>

StrRank(s) == CHOOSE i \in 1..Len(StrOrder) : StrOrder[i] = s

Ref(p, n) == [pre |-> p, ann |-> TRUE, num |-> n]

Unannotated(p) == [pre |-> p, ann |-> FALSE, num |-> 0]

RECURSIVE LexLess(_, _)
LexLess(a, b) ==
    IF a = <<>> \/ b = <<>> THEN FALSE
    ELSE IF Head(a) < Head(b) THEN TRUE
    ELSE IF Head(a) > Head(b) THEN FALSE
    ELSE LexLess(Tail(a), Tail(b))

(* The order a stable sort gives the indices of keys (tuples of integers). *)
RECURSIVE OrderOf(_, _)
OrderOf(keys, todo) ==
    IF todo = {} THEN <<>>
    ELSE LET i == CHOOSE i \in todo : \A j \in todo \ {i} :
                      \/ LexLess(keys[i], keys[j])
                      \/ (~LexLess(keys[j], keys[i]) /\ i < j)
         IN  <<i>> \o OrderOf(keys, todo \ {i})

StableSort(seq, keys) ==
    LET ord == OrderOf(keys, 1..Len(seq))
    IN  [k \in 1..Len(seq) |-> seq[ord[k]]]

-----------------------------------------------------------------------------
(*                      utils.py: _sort_as_numeric                         *)

(* int(v[i:]) for the first i at which it parses; 0 when none does         *)
(* ("R?" has no numeric portion).                                          *)
IntOf(v) == IF v.ann THEN v.num ELSE 0

(* The text order of two references is needed only between references of   *)
(* equal IntOf: the prefix decides, then a digit sorts before "?".         *)
TextKey(v) == <<StrRank(v.pre), IF v.ann THEN 0 ELSE 1>>

(* prefix: v[:i] of the first value, in the order given, whose numeric     *)
(* portion parses; "" when no value has one.                               *)
RECURSIVE FirstPrefix(_)
FirstPrefix(vals) ==
    IF vals = <<>> THEN ""
    ELSE IF Head(vals).ann THEN Head(vals).pre
    ELSE FirstPrefix(Tail(vals))

SortPairs(vals) ==
    StableSort(vals, [k \in 1..Len(vals) |-> <<IntOf(vals[k])>> \o TextKey(vals[k])])

(* seqs: the [start, end] pairs of the runs of sorted_int, found as the    *)
(* loop finds them: a value other than st + 1 closes the run.              *)
RECURSIVE FindSeqs(_, _, _)
FindSeqs(ints, start, st) ==
    IF ints = <<>> THEN << <<start, st>> >>
    ELSE IF Head(ints) # st + 1
         THEN << <<start, st>> >> \o FindSeqs(Tail(ints), Head(ints), Head(ints))
         ELSE FindSeqs(Tail(ints), start, Head(ints))

Abs(n) == IF n < 0 THEN -n ELSE n

(* One output string: "P5-P13", "P5, P6" or "P5".                          *)
Token(prefix, se) ==
    IF Abs(se[2] - se[1]) > 1
    THEN [kind |-> "range", first |-> Ref(prefix, se[1]), last |-> Ref(prefix, se[2])]
    ELSE IF se[1] # se[2]
    THEN [kind |-> "pair", first |-> Ref(prefix, se[1]), last |-> Ref(prefix, se[2])]
    ELSE [kind |-> "single", first |-> Ref(prefix, se[1]), last |-> Ref(prefix, se[2])]

sort_as_numeric(vals, replace_seq) ==
    LET sorted_vals == SortPairs(vals)
        sorted_int  == [k \in 1..Len(vals) |-> IntOf(sorted_vals[k])]
        prefix      == FirstPrefix(vals)
        seqs        == FindSeqs(Tail(sorted_int), sorted_int[1], sorted_int[1])
    IN  IF replace_seq
        THEN [k \in 1..Len(seqs) |-> Token(prefix, seqs[k])]
        ELSE sorted_vals

-----------------------------------------------------------------------------
(*                 utils.py: split_refs; parsing.py: _condense_df          *)

(* split_refs on one reference: the characters before the first numeric    *)
(* one, and the rest as an integer (0 when it is no integer). For "R?" no  *)
(* character is numeric, the loop ends on the last index, and the prefix   *)
(* is the text without its last character.                                 *)
split_refs(r) == <<r.pre, IF r.ann THEN r.num ELSE 0>>

(* The same with the instance path as one more column.                     *)
GroupKeyWithPath(row) == <<row.Value, row.Description, row.Footprint, row.Vrating, row.pID>>

(* The columns a row is grouped by: all but Reference and pID.             *)
GroupKey(row) == <<row.Value, row.Description, row.Footprint, row.Vrating>>

KeyRank(k) == [i \in 1..Len(k) |-> IF i <= 4 THEN StrRank(k[i]) ELSE Len(k[i])]

RECURSIVE SetToSeq(_)
SetToSeq(S) ==
    IF S = {} THEN <<>>
    ELSE LET x == CHOOSE x \in S : TRUE IN <<x>> \o SetToSeq(S \ {x})

(* groupby(...)["Reference"].apply(list): the groups, as sets of row       *)
(* indices, in the ascending order of their keys.                          *)
GroupBy(df) ==
    LET keys   == {GroupKey(df[i]) : i \in 1..Len(df)}
        keyseq == SetToSeq(keys)
        sorted == StableSort(keyseq, [k \in 1..Len(keyseq) |-> KeyRank(keyseq[k])])
    IN  [k \in 1..Len(sorted) |->
            [key |-> sorted[k], members |-> {i \in 1..Len(df) : GroupKey(df[i]) = sorted[k]}]]

(* _condense_df(df, False, False): per group the distinct references in    *)
(* numeric order, the quantity, and the groups re-sorted by the prefix     *)
(* and number of their first reference. list(set(v)) gives the distinct    *)
(* references in some order; the numeric sort does not depend on it.       *)
condense_df(df) ==
    LET groups  == GroupBy(df)
        summary == [k \in 1..Len(groups) |->
                      LET tmp == SetToSeq({df[i].Reference : i \in groups[k].members})
                      IN  [Reference |-> sort_as_numeric(tmp, FALSE),
                           Qty       |-> Len(tmp),
                           key       |-> groups[k].key,
                           members   |-> groups[k].members]]
        sortvals == [k \in 1..Len(summary) |->
                      LET sr == split_refs(summary[k].Reference[1])
                      IN  <<StrRank(sr[1]), sr[2]>>]
    IN  StableSort(summary, sortvals)

-----------------------------------------------------------------------------
(*                    condensing.py: compress_references                   *)

(* _get_prefix: the characters before the first numeric one or "?".        *)
get_prefix(val) == val.pre

RECURSIVE Flatten(_)
Flatten(lines) ==
    IF lines = <<>> THEN <<>> ELSE Head(lines) \o Flatten(Tail(lines))

(* The loop of lines 116-122 over the references in walk order: rename is  *)
(* the dict {old reference: new reference}, idx the next number of each    *)
(* prefix.                                                                 *)
RECURSIVE Walk(_, _, _)
Walk(refs, idx, rename) ==
    IF refs = <<>> THEN rename
    ELSE LET ref == Head(refs)
             pre == get_prefix(ref)
             tmp == Ref(pre, idx[pre])
             nxt == [idx EXCEPT ![pre] = @ + 1]
         IN  IF tmp # ref
             THEN Walk(Tail(refs), nxt,
                       [x \in DOMAIN rename \cup {ref} |-> IF x = ref THEN tmp ELSE rename[x]])
             ELSE Walk(Tail(refs), nxt, rename)

(* The references of the condensed rows, line after line.                  *)
RefsOf(condensed_df) ==
    Flatten([k \in 1..Len(condensed_df) |-> condensed_df[k].Reference])

(* Lines 102-122 on these references: rename_idx starts at 1 for every     *)
(* prefix counted.                                                         *)
WalkFromOne(refs) ==
    Walk(refs, [p \in {get_prefix(refs[k]) : k \in 1..Len(refs)} |-> 1], <<>>)

RenameDict(df) == WalkFromOne(RefsOf(condense_df(df)))

(* base_df["Reference"].apply(lambda x: rename_map.get(x, x))              *)
ApplyRename(df, rename) ==
    [i \in 1..Len(df) |->
        [Reference |-> df[i].Reference, Value |-> df[i].Value,
         Description |-> df[i].Description, Footprint |-> df[i].Footprint,
         Vrating |-> df[i].Vrating, pID |-> df[i].pID,
         NewRef |-> IF df[i].Reference \in DOMAIN rename
                    THEN rename[df[i].Reference] ELSE df[i].Reference]]

(* Line 128: base_df with the column NewRef.                               *)
WithNewRef(df) == ApplyRename(df, RenameDict(df))

RECURSIVE SelectRows(_, _)
SelectRows(df, keep) ==
    IF df = <<>> THEN <<>>
    ELSE (IF keep[1] THEN <<Head(df)>> ELSE <<>>)
         \o SelectRows(Tail(df), Tail(keep))

(* Lines 129-135: the rows whose reference changes, indexed by the old     *)
(* reference, with NewRef and pID, sorted by the prefix and number of      *)
(* NewRef. Nothing removes a row that repeats another.                     *)
RenameMapOf(df) ==
    LET changed == SelectRows(df, [i \in 1..Len(df) |-> df[i].Reference # df[i].NewRef])
        entries == [i \in 1..Len(changed) |->
                      [Reference |-> changed[i].Reference, NewRef |-> changed[i].NewRef,
                       pID |-> changed[i].pID,
                       pref |-> split_refs(changed[i].NewRef)[1],
                       vals |-> split_refs(changed[i].NewRef)[2]]]
    IN  StableSort(entries, [i \in 1..Len(entries) |->
                                <<StrRank(entries[i].pref), entries[i].vals>>])

-----------------------------------------------------------------------------
(*      The rename planner on bounded sets of component rows (SpecPlan)    *)

MaxRows == 3

MaxNum == 3

(* What a name that no file has reads as.                                  *)
NoFile == [layout |-> "no file", symbols |-> <<>>, sheets |-> <<>>]

Prefixes == {"C", "R"}

ProjectId == "P"

PlanRefs == {Ref(p, n) : p \in Prefixes, n \in 1..MaxNum} \cup {Unannotated("R")}

PlanPaths == {<<ProjectId>>, <<ProjectId, <<"root", 1>> >>}

PlanRows ==
    [Reference : PlanRefs, Value : {"1k", "10k"}, Description : {"-"},
     Footprint : {"-"}, Vrating : {"-"}, pID : PlanPaths]

RowRank(row) ==
    <<StrRank(row.Reference.pre), IF row.Reference.ann THEN row.Reference.num ELSE 0,
      IF row.Reference.ann THEN 0 ELSE 1, StrRank(row.Value), StrRank(row.Description),
      StrRank(row.Footprint), StrRank(row.Vrating), Len(row.pID)>>

Idle ==
    /\ fs = <<>> /\ orig = <<>> /\ writes = <<>> /\ visits = <<>> /\ stack = <<>>

InitPlan ==
    /\ Idle
    /\ pc = "rows"
    /\ base_df = <<>>
    /\ rename_map = <<>>
    /\ condensed = <<>>
    /\ values = <<>>
    /\ out = <<>>

(* One more component row of the project. The plan does not depend on the  *)
(* order of the rows, so they are drawn in ascending order.                *)
PlanAddRow ==
    /\ pc = "rows"
    /\ Len(base_df) < MaxRows
    /\ \E row \in PlanRows :
          /\ IF base_df = <<>> THEN TRUE
             ELSE ~LexLess(RowRank(row), RowRank(base_df[Len(base_df)]))
          /\ base_df' = Append(base_df, row)
    /\ UNCHANGED <<fs, orig, writes, visits, stack, pc, rename_map, condensed, values, out>>

(* compress_references up to its call of replace_references.               *)
PlanCompress ==
    /\ pc \in {"rows", "applied"}
    /\ base_df # <<>>
    /\ base_df' = WithNewRef(base_df)
    /\ rename_map' = RenameMapOf(base_df')
    /\ condensed' = condense_df(base_df)
    /\ pc' = IF pc = "rows" THEN "planned" ELSE "replanned"
    /\ UNCHANGED <<fs, orig, writes, visits, stack, values, out>>

(* The plan applied: every row takes its new reference.                    *)
PlanApply ==
    /\ pc = "planned"
    /\ base_df' = [i \in 1..Len(base_df) |->
                      [Reference |-> base_df[i].NewRef, Value |-> base_df[i].Value,
                       Description |-> base_df[i].Description,
                       Footprint |-> base_df[i].Footprint,
                       Vrating |-> base_df[i].Vrating, pID |-> base_df[i].pID]]
    /\ pc' = "applied"
    /\ UNCHANGED <<fs, orig, writes, visits, stack, rename_map, condensed, values, out>>

NextPlan == PlanAddRow \/ PlanCompress \/ PlanApply

SpecPlan == InitPlan /\ [][NextPlan]_vars

Planned == pc \in {"planned", "replanned"}

(* Two rows are different occurrences when they differ in the reference,   *)
(* the instance path or an attribute.                                      *)
SameOccurrence(a, b) ==
    /\ a.Reference = b.Reference /\ a.pID = b.pID
    /\ GroupKey(a) = GroupKey(b)

(* C4: in the plan of compress_references no two different component      *)
(* occurrences are assigned the same new reference, also when they carry   *)
(* the same old reference text.                                            *)
C4_NoCollision ==
    pc = "planned" =>
        \A i, j \in 1..Len(base_df) :
            ~SameOccurrence(base_df[i], base_df[j]) => base_df[i].NewRef # base_df[j].NewRef

IsRange(S) == S = {} \/ \E lo, hi \in S : S = lo..hi

(* C5: for every BOM group and every prefix the new numbers of the group's *)
(* references of that prefix form a contiguous integer range.              *)
C5_ContiguousPerGroup ==
    pc = "planned" =>
        \A k \in 1..Len(condensed) : \A p \in Prefixes :
            IsRange({base_df[i].NewRef.num :
                        i \in {m \in condensed[k].members : base_df[m].NewRef.pre = p}})

(* C6: planning again on the project the plan was applied to gives an      *)
(* empty rename map.                                                       *)
C6_Idempotent == pc = "replanned" => rename_map = <<>>

-----------------------------------------------------------------------------
(*            _condense_df on bounded sets of rows (SpecGroup)             *)

MaxGroupRows == 3

GroupRefs == {Ref("R", 1), Ref("R", 2)}

(* One attribute tuple and the four that differ from it in one field.      *)
GroupAttrs ==
    { [Value |-> "1k",  Description |-> "res", Footprint |-> "0402", Vrating |-> "-"],
      [Value |-> "10k", Description |-> "res", Footprint |-> "0402", Vrating |-> "-"],
      [Value |-> "1k",  Description |-> "cap", Footprint |-> "0402", Vrating |-> "-"],
      [Value |-> "1k",  Description |-> "res", Footprint |-> "0603", Vrating |-> "-"],
      [Value |-> "1k",  Description |-> "res", Footprint |-> "0402", Vrating |-> "16V"] }

GroupRows ==
    { [Reference |-> r, Value |-> a.Value, Description |-> a.Description,
       Footprint |-> a.Footprint, Vrating |-> a.Vrating, pID |-> p] :
         r \in GroupRefs, a \in GroupAttrs, p \in PlanPaths }

InitGroup ==
    /\ Idle
    /\ pc = "group rows"
    /\ base_df = <<>>
    /\ rename_map = <<>>
    /\ condensed = <<>>
    /\ values = <<>>
    /\ out = <<>>

GroupAddRow ==
    /\ pc = "group rows"
    /\ Len(base_df) < MaxGroupRows
    /\ \E row \in GroupRows :
          /\ IF base_df = <<>> THEN TRUE
             ELSE ~LexLess(RowRank(row), RowRank(base_df[Len(base_df)]))
          /\ base_df' = Append(base_df, row)
    /\ UNCHANGED <<fs, orig, writes, visits, stack, pc, rename_map, condensed, values, out>>

GroupCondense ==
    /\ pc = "group rows"
    /\ base_df # <<>>
    /\ condensed' = condense_df(base_df)
    /\ pc' = "condensed"
    /\ UNCHANGED <<fs, orig, writes, visits, stack, base_df, rename_map, values, out>>

NextGroup == GroupAddRow \/ GroupCondense

SpecGroup == InitGroup /\ [][NextGroup]_vars

Range(seq) == {seq[k] : k \in 1..Len(seq)}

SameAttributes(a, b) ==
    /\ a.Value = b.Value /\ a.Footprint = b.Footprint
    /\ a.Description = b.Description /\ a.Vrating = b.Vrating

InSameGroup(i, j) ==
    \E k \in 1..Len(condensed) :
        /\ {i, j} \subseteq condensed[k].members
        /\ {base_df[i].Reference, base_df[j].Reference} \subseteq Range(condensed[k].Reference)

(* C8: _condense_df puts two rows in the same BOM group exactly when they  *)
(* agree on value, footprint, description and the extra field; neither the *)
(* reference nor the instance path plays a part.                           *)
C8_GroupsByAttributes ==
    pc = "condensed" =>
        /\ \A i, j \in 1..Len(base_df) :
              InSameGroup(i, j) <=> SameAttributes(base_df[i], base_df[j])
        /\ \A i \in 1..Len(base_df) : \E k \in 1..Len(condensed) : i \in condensed[k].members

(* C8's case: a group that merges two rows of different references and     *)
(* instance paths, beside a row that one field keeps out of it.            *)
C8_Witness ==
    /\ pc = "condensed"
    /\ \E i, j, m \in 1..Len(base_df) :
          /\ base_df[i].Reference # base_df[j].Reference
          /\ base_df[i].pID # base_df[j].pID
          /\ InSameGroup(i, j)
          /\ base_df[m].Vrating # base_df[i].Vrating
          /\ base_df[m].Value = base_df[i].Value
          /\ ~InSameGroup(i, m)

-----------------------------------------------------------------------------
(*          _sort_as_numeric on bounded reference lists (SpecSort)         *)

MaxLen == 3

MaxIdx == 4

SortRefs == {Ref(p, n) : p \in Prefixes, n \in 1..MaxIdx} \cup {Unannotated("R")}

InitSort ==
    /\ Idle
    /\ pc = "values"
    /\ base_df = <<>>
    /\ rename_map = <<>>
    /\ condensed = <<>>
    /\ values \in {<<v>> : v \in SortRefs}
    /\ out = <<>>

(* The caller hands over list(set(v)): distinct references, in any order.  *)
SortAddValue ==
    /\ pc = "values"
    /\ Len(values) < MaxLen
    /\ \E v \in SortRefs \ Range(values) : values' = Append(values, v)
    /\ UNCHANGED <<fs, orig, writes, visits, stack, pc, base_df, rename_map, condensed, out>>

SortCall ==
    /\ pc = "values"
    /\ out' = sort_as_numeric(values, TRUE)
    /\ pc' = "sorted"
    /\ UNCHANGED <<fs, orig, writes, visits, stack, base_df, rename_map, condensed, values>>

NextSort == SortAddValue \/ SortCall

SpecSort == InitSort /\ [][NextSort]_vars

Ints(vals) == {IntOf(vals[k]) : k \in 1..Len(vals)}

(* The maximal runs of consecutive integers among the references' numbers. *)
MaximalRuns(vals) ==
    { <<a, b>> \in Ints(vals) \X Ints(vals) :
        /\ a <= b
        /\ \A n \in a..b : n \in Ints(vals)
        /\ (a - 1) \notin Ints(vals)
        /\ (b + 1) \notin Ints(vals) }

TokenOfRun(vals, tokens, run) ==
    LET hits == {k \in 1..Len(tokens) :
                    tokens[k].first.num = run[1] /\ tokens[k].last.num = run[2]}
    IN  /\ Cardinality(hits) = 1
        /\ \A k \in hits :
              /\ tokens[k].first \in Range(vals)
              /\ tokens[k].last \in Range(vals)
              /\ tokens[k].kind = IF run[2] - run[1] >= 2 THEN "range"
                                  ELSE IF run[2] - run[1] = 1 THEN "pair"
                                  ELSE "single"

TokensMatchRuns(vals, tokens) ==
    /\ \A run \in MaximalRuns(vals) : TokenOfRun(vals, tokens, run)
    /\ Len(tokens) = Cardinality(MaximalRuns(vals))

(* C9: for every list of distinct references _sort_as_numeric gives one    *)
(* token per maximal run of consecutive numbers: a range of the run's      *)
(* first and last reference for three or more, the pair of them for two,   *)
(* the reference itself for one.                                           *)
C9_TokenPerRun == pc = "sorted" => TokensMatchRuns(values, out)

RECURSIVE RefsFromTo(_, _, _)
RefsFromTo(prefix, lo, hi) ==
    IF lo > hi THEN <<>> ELSE <<Ref(prefix, lo)>> \o RefsFromTo(prefix, lo + 1, hi)

(* The references a token stands for.                                      *)
ExpandToken(t) ==
    IF t.kind = "range" THEN RefsFromTo(t.first.pre, t.first.num, t.last.num)
    ELSE IF t.kind = "pair" THEN <<t.first, t.last>>
    ELSE <<t.first>>

Expand(tokens) == Flatten([k \in 1..Len(tokens) |-> ExpandToken(tokens[k])])

RoundTrip(vals, tokens) ==
    LET e == Expand(tokens)
    IN  /\ Len(e) = Cardinality(Range(vals))
        /\ Range(e) = Range(vals)
        /\ \A i, j \in 1..Len(e) : i < j => IntOf(e[i]) <= IntOf(e[j])

(* C10: for any reference list, the tokens of _sort_as_numeric expand to   *)
(* exactly the input references, in ascending numeric order.               *)
C10_RoundTrip == pc = "sorted" => RoundTrip(values, out)

-----------------------------------------------------------------------------
(*        The project folder: sheet files, their symbols and sheets        *)

MaxSheets == 2

MaxFirst == 2

Files == {"root", "a", "b"}

RootFile == "root"

BackupName(f) == "_" \o f

(* A file opened for writing and never written: no content.                *)
EmptyFile == [layout |-> "empty", symbols |-> <<>>, sheets |-> <<>>]

SheetLists(S) == UNION {[1..n -> S] : n \in 0..MaxSheets}

(* The uuid of the i-th sheet descriptor of file f.                        *)
SheetUuid(f, i) == <<f, i>>

RECURSIVE PathsVia(_, _, _, _, _)
PathsVia(parent, pname, sheets, child, i) ==
    IF i > Len(sheets) THEN <<>>
    ELSE (IF sheets[i] = child
          THEN [k \in 1..Len(parent) |-> Append(parent[k], SheetUuid(pname, i))]
          ELSE <<>>)
         \o PathsVia(parent, pname, sheets, child, i + 1)

(* The instance paths of each file, as KiCad writes them into the file's   *)
(* symbols: one per way the sheet hierarchy reaches the file.              *)
InstancePaths(rs, as) ==
    LET root == << <<ProjectId>> >>
        a    == PathsVia(root, "root", rs, "a", 1)
        b    == PathsVia(root, "root", rs, "b", 1) \o PathsVia(a, "a", as, "b", 1)
    IN  [f \in Files |-> IF f = "root" THEN root ELSE IF f = "a" THEN a ELSE b]

(* A sheet file as KiCad saved it: one symbol, with one reference leaf per *)
(* instance path, numbered from first on.                                  *)
SheetFile(paths, first, sheets) ==
    [layout  |-> "kicad",
     symbols |-> << [Value |-> "1k", Description |-> "-", Footprint |-> "-",
                     Vrating |-> "-",
                     leaves |-> [k \in 1..Len(paths) |->
                                    [path |-> paths[k],
                                     reference |-> Ref("R", first + k - 1)]]] >>,
     sheets  |-> sheets]

Project(rs, as, first) ==
    LET paths == InstancePaths(rs, as)
        sheets == [f \in Files |-> IF f = "root" THEN rs ELSE IF f = "a" THEN as ELSE <<>>]
    IN  [n \in Files \cup {BackupName(f) : f \in Files} |->
            IF n \in Files THEN SheetFile(paths[n], first[n], sheets[n]) ELSE NoFile]

-----------------------------------------------------------------------------
(*       utils.py: extract_instance_ref; parsing.py: get_BOM_items,        *)
(*       parse_file                                                        *)

IgnoreRefs == {"G", "H", "J"}

(* The (reference, path) pairs under the paths of this project.            *)
extract_instance_ref(component, project_id) ==
    SelectRows([k \in 1..Len(component.leaves) |->
                   <<component.leaves[k].reference, component.leaves[k].path>>],
               [k \in 1..Len(component.leaves) |->
                   component.leaves[k].path[1] = project_id])

(* The reference text a row takes, lines 138-142: the leaf's text, or for  *)
(* an empty text the symbol's property "Reference".                        *)
RowReference(component, ref) ==
    IF ref.pre = "" /\ ~ref.ann THEN component.Reference ELSE ref

(* One row per retained reference of one symbol.                           *)
ComponentRows(component, project_id) ==
    LET refs == extract_instance_ref(component, project_id)
        keep == [k \in 1..Len(refs) |->
                    LET r == RowReference(component, refs[k][1])
                    IN  ~(r.pre = "#" \/ r.pre \in IgnoreRefs)]
        kept == SelectRows(refs, keep)
    IN  [k \in 1..Len(kept) |->
            [Reference |-> RowReference(component, kept[k][1]), Value |-> component.Value,
             Description |-> component.Description, Footprint |-> component.Footprint,
             Vrating |-> component.Vrating, pID |-> kept[k][2]]]

(* Lines 121-126: for a symbol without a reference under the project refs  *)
(* becomes [""], and "for ref, pID in refs" cannot unpack the empty        *)
(* string: ValueError.                                                     *)
get_BOM_items_raises(components, project_id) ==
    \E k \in 1..Len(components) : extract_instance_ref(components[k], project_id) = <<>>

get_BOM_items(components, project_id) ==
    Flatten([k \in 1..Len(components) |-> ComponentRows(components[k], project_id)])

(* parse_file: the rows of the file, then those of every sheet descriptor's *)
(* file, one descriptor after the other; a file named by two descriptors   *)
(* is parsed twice.                                                        *)
RECURSIVE parse_file(_, _, _)
parse_file(folder, filename, project_id) ==
    LET file == folder[filename]
    IN  get_BOM_items(file.symbols, project_id)
        \o Flatten([k \in 1..Len(file.sheets) |->
                       parse_file(folder, file.sheets[k], project_id)])

-----------------------------------------------------------------------------
(*       utils.py: replace_instance_ref; condensing.py: replace_references *)

(* The same without the restriction to the entries of the leaf's path.     *)
ReplaceLeafAnyPath(leaf, map) ==
    LET hits == {i \in 1..Len(map) : map[i].Reference = leaf.reference}
    IN  IF hits # {}
        THEN [leaf EXCEPT !.reference = map[CHOOSE i \in hits : TRUE].NewRef]
        ELSE leaf

(* candidates.loc[v, "NewRef"] for the entries of one path: a str when one *)
(* entry is indexed by v; a KeyError when none is; a Series when several   *)
(* are, and then repl["NewRef"] raises the KeyError. The KeyError is       *)
(* caught and the leaf is left as it is.                                   *)
ReplaceLeaf(leaf, map) ==
    LET hits == {i \in 1..Len(map) :
                    map[i].pID = leaf.path /\ map[i].Reference = leaf.reference}
    IN  IF Cardinality(hits) = 1
        THEN [leaf EXCEPT !.reference = map[CHOOSE i \in hits : TRUE].NewRef]
        ELSE leaf

replace_instance_ref(component, map) ==
    [component EXCEPT !.leaves = [k \in 1..Len(component.leaves) |->
                                     ReplaceLeaf(component.leaves[k], map)]]

(* dumps(data): the tree in sexpdata's own layout, not the text read.      *)
Dumps(data) == [data EXCEPT !.layout = "sexpdata"]

(* The two steps the other way round.                                      *)
SaveStepsWriteFirst == <<"write", "backup">>

(* Lines 52-64: os.replace moves the file to its backup, then the file is  *)
(* opened and written.                                                     *)
SaveSteps == <<"backup", "write">>

os_replace(folder, src, dst) == [folder EXCEPT ![dst] = folder[src], ![src] = NoFile]

Top == stack[Len(stack)]

SetTop(frame) == [stack EXCEPT ![Len(stack)] = frame]

Frame(filename) == [file |-> filename, step |-> "read", save |-> 1, data |-> <<>>, todo |-> {}]

AfterSave(frame) ==
    IF frame.save < Len(SaveSteps)
    THEN [frame EXCEPT !.save = @ + 1]
    ELSE [frame EXCEPT !.step = "recurse", !.todo = Range(frame.data.sheets)]

Init ==
    /\ \E rs \in SheetLists({"a", "b"}), as \in SheetLists({"b"}),
          first \in [Files -> 1..MaxFirst] :
          fs = Project(rs, as, first)
    /\ orig = fs
    /\ writes = [f \in Files |-> 0]
    /\ visits = [f \in Files |-> 0]
    /\ stack = <<>>
    /\ pc = "start"
    /\ base_df = <<>>
    /\ rename_map = <<>>
    /\ condensed = <<>>
    /\ values = <<>>
    /\ out = <<>>

(* compress_references, line 97.                                           *)
Extract ==
    /\ pc = "start"
    /\ base_df' = parse_file(fs, RootFile, ProjectId)
    /\ pc' = "extracted"
    /\ UNCHANGED <<fs, orig, writes, visits, stack, rename_map, condensed, values, out>>

(* open, loads or get_BOM_items raises on some sheet of the hierarchy      *)
(* (parsing.py, lines 44-63): the error ends compress_references at        *)
(* line 97.                                                                *)
ExtractFails ==
    /\ pc = "start"
    /\ pc' = "parse failed"
    /\ UNCHANGED <<fs, orig, writes, visits, stack, base_df, rename_map, condensed, values, out>>

(* compress_references, lines 100-135.                                     *)
Plan ==
    /\ pc = "extracted"
    /\ condensed' = condense_df(base_df)
    /\ base_df' = WithNewRef(base_df)
    /\ rename_map' = RenameMapOf(base_df')
    /\ pc' = "planned"
    /\ UNCHANGED <<fs, orig, writes, visits, stack, values, out>>

(* Where replace_references is called instead: before the planning.        *)
CallPointBeforePlan == "extracted"

(* Where replace_references is called: line 143, after the planning.       *)
CallPoint == "planned"

(* compress_references, line 143: the call on the root sheet.              *)
CallReplace ==
    /\ pc = CallPoint
    /\ stack' = <<Frame(RootFile)>>
    /\ pc' = "rewriting"
    /\ UNCHANGED <<fs, orig, writes, visits, base_df, rename_map, condensed, values, out>>

(* replace_references, lines 33-49: read, parse, rename in the tree.       *)
ReadSheet ==
    /\ pc = "rewriting" /\ Top.step = "read"
    /\ LET raw == fs[Top.file]
           data == [raw EXCEPT !.symbols = [k \in 1..Len(raw.symbols) |->
                                   replace_instance_ref(raw.symbols[k], rename_map)]]
       IN  stack' = SetTop([Top EXCEPT !.step = "save", !.data = data])
    /\ visits' = [visits EXCEPT ![Top.file] = @ + 1]
    /\ UNCHANGED <<fs, orig, writes, pc, base_df, rename_map, condensed, values, out>>

(* os.replace(filename, "_" + filename)                                    *)
BackupSheet ==
    /\ pc = "rewriting" /\ Top.step = "save" /\ SaveSteps[Top.save] = "backup"
    /\ fs' = os_replace(fs, Top.file, BackupName(Top.file))
    /\ stack' = SetTop(AfterSave(Top))
    /\ UNCHANGED <<orig, writes, visits, pc, base_df, rename_map, condensed, values, out>>

(* open(filename, "w"); f.write(dumps(data))                               *)
WriteSheet ==
    /\ pc = "rewriting" /\ Top.step = "save" /\ SaveSteps[Top.save] = "write"
    /\ fs' = [fs EXCEPT ![Top.file] = Dumps(Top.data)]
    /\ writes' = [writes EXCEPT ![Top.file] = @ + 1]
    /\ stack' = SetTop(AfterSave(Top))
    /\ UNCHANGED <<orig, visits, pc, base_df, rename_map, condensed, values, out>>

(* The write fails (disk full, permission): the file was opened and is     *)
(* left truncated, the error reaches the caller.                           *)
WriteFails ==
    /\ pc = "rewriting" /\ Top.step = "save" /\ SaveSteps[Top.save] = "write"
    /\ fs' = [fs EXCEPT ![Top.file] = EmptyFile]
    /\ writes' = [writes EXCEPT ![Top.file] = @ + 1]
    /\ stack' = <<>>
    /\ pc' = "failed"
    /\ UNCHANGED <<orig, visits, base_df, rename_map, condensed, values, out>>

(* Lines 67-72: the call on one of the distinct child file names; a set    *)
(* gives them in no particular order.                                      *)
Recurse ==
    /\ pc = "rewriting" /\ Top.step = "recurse"
    /\ \E fname \in Top.todo :
          stack' = Append(SetTop([Top EXCEPT !.todo = @ \ {fname}]), Frame(fname))
    /\ UNCHANGED <<fs, orig, writes, visits, pc, base_df, rename_map, condensed, values, out>>

Return ==
    /\ pc = "rewriting" /\ Top.step = "recurse" /\ Top.todo = {}
    /\ stack' = SubSeq(stack, 1, Len(stack) - 1)
    /\ pc' = IF Len(stack) = 1 THEN "done" ELSE pc
    /\ UNCHANGED <<fs, orig, writes, visits, base_df, rename_map, condensed, values, out>>

Next ==
    \/ Extract \/ ExtractFails \/ Plan \/ CallReplace
    \/ ReadSheet \/ BackupSheet \/ WriteSheet \/ WriteFails
    \/ Recurse \/ Return

Spec == Init /\ [][Next]_vars

-----------------------------------------------------------------------------
(*                 Properties of the rewrite (Spec)                        *)

Leaves(file) == Flatten([k \in 1..Len(file.symbols) |-> file.symbols[k].leaves])

(* C1: after replace_references has run, every reference leaf of every     *)
(* sheet reachable from the root whose (instance path, text before the     *)
(* run) pair is a key of the rename map holds that entry's new reference.  *)
C1_KeyedLeavesRenamed ==
    pc = "done" =>
        \A f \in {g \in Files : visits[g] >= 1} :
            \A k \in 1..Len(Leaves(orig[f])) : \A i \in 1..Len(rename_map) :
                (/\ rename_map[i].pID = Leaves(orig[f])[k].path
                 /\ rename_map[i].Reference = Leaves(orig[f])[k].reference)
                    => Leaves(fs[f])[k].reference = rename_map[i].NewRef

PendingFirstWrite(f) ==
    /\ stack # <<>>
    /\ Top.file = f /\ Top.step = "save" /\ SaveSteps[Top.save] = "write"
    /\ writes[f] = 0

(* C2: the backup "_<name>" holding the original content of a sheet file   *)
(* exists before the first write of new content to the file, and the file  *)
(* is in no state overwritten while its backup is missing, the state after *)
(* a failed write included.                                                *)
C2_BackupBeforeWrite ==
    pc \in {"rewriting", "failed", "done"} =>
        \A f \in Files :
            /\ PendingFirstWrite(f) => fs[BackupName(f)] = orig[f]
            /\ writes[f] >= 1 => fs[BackupName(f)] # NoFile
            /\ (writes[f] = 1 /\ visits[f] = 1) => fs[BackupName(f)] = orig[f]
            /\ fs[f] # orig[f] => fs[BackupName(f)] # NoFile

(* A write has failed: the file is truncated and its backup holds the      *)
(* original content.                                                       *)
C2_Witness ==
    /\ pc = "failed"
    /\ \E f \in Files :
          /\ fs[f] = EmptyFile /\ writes[f] = 1 /\ visits[f] = 1
          /\ fs[BackupName(f)] = orig[f] /\ orig[f] # NoFile

(* C3: when the run ends, every sheet file it changed has a backup whose   *)
(* content is the content the file had before the run changed it.          *)
C3_BackupHoldsOriginal ==
    pc = "done" =>
        \A f \in Files : writes[f] >= 1 => fs[BackupName(f)] = orig[f]

(* C7: the rename map handed to replace_references has no two entries with *)
(* the same (old reference, instance path) key.                            *)
C7_NoDuplicateKeys ==
    pc \in {"planned", "rewriting", "failed", "done"} =>
        \A i, j \in 1..Len(rename_map) :
            (/\ rename_map[i].Reference = rename_map[j].Reference
             /\ rename_map[i].pID = rename_map[j].pID) => i = j

-----------------------------------------------------------------------------
(*      parsing.py: get_BOM_all_sheets; utils.py: df_to_string (SpecBOM)   *)

MaxOrder == 2

BomCsv == "root_BOM.csv"

(* The columns of the condensed frame, lines 216-224.                      *)
BomColumns == <<"Reference", "Value", "Qty", "Footprint", "Description", "Vrating">>

OrderNames == {"Value", "Qty", "Bogus"}

(* custom_order: None, or a list of column names.                          *)
CustomOrders ==
    {[given |-> FALSE, cols |-> <<>>]}
    \cup {[given |-> TRUE, cols |-> c] :
             c \in {q \in UNION {[1..n -> OrderNames] : n \in 0..MaxOrder} :
                       \A i, j \in 1..Len(q) : q[i] = q[j] => i = j}}

BomFrames == [to_csv : BOOLEAN, custom_order : CustomOrders]

BomInputs ==
    {<<r>> : r \in {x \in GroupRows : x.pID = <<ProjectId>> /\ x.Reference.pre = "R"
                                       /\ x.Vrating = "-" /\ x.Description = "res"}}

(* df_to_string, lines 343-349: the custom columns that the frame lacks.   *)
MissingColumns(custom_order) ==
    SelectRows(custom_order, [k \in 1..Len(custom_order) |->
                                 custom_order[k] \notin Range(BomColumns)])

(* Line 350: the custom columns, then the columns they omit.               *)
ColOrder(custom_order) ==
    custom_order \o SelectRows(BomColumns, [k \in 1..Len(BomColumns) |->
                                               BomColumns[k] \notin Range(custom_order)])

df_to_string(df, custom_order) ==
    IF custom_order.given
    THEN IF MissingColumns(custom_order.cols) # <<>>
         THEN [error |-> "ValueError", text |-> <<>>]
         ELSE [error |-> "", text |-> ColOrder(custom_order.cols)]
    ELSE [error |-> "", text |-> BomColumns]

(* What to_csv leaves in the file: the rows of the condensed frame.        *)
CsvOf(df) == [layout |-> "csv", symbols |-> df, sheets |-> <<>>]

InitBOM ==
    /\ fs = [n \in {BomCsv} |-> NoFile]
    /\ orig = fs
    /\ writes = [n \in {BomCsv} |-> 0]
    /\ visits = <<>>
    /\ stack \in {<<f>> : f \in BomFrames}
    /\ pc = "bom start"
    /\ base_df \in BomInputs
    /\ rename_map = <<>>
    /\ condensed = <<>>
    /\ values = <<>>
    /\ out = <<>>

(* Lines 264-266.                                                          *)
BomCondense ==
    /\ pc = "bom start"
    /\ condensed' = condense_df(base_df)
    /\ pc' = "bom condensed"
    /\ UNCHANGED <<fs, orig, writes, visits, stack, base_df, rename_map, values, out>>

(* Lines 268-269.                                                          *)
BomToCsv ==
    /\ pc = "bom condensed"
    /\ fs' = IF Top.to_csv THEN [fs EXCEPT ![BomCsv] = CsvOf(condensed)] ELSE fs
    /\ writes' = IF Top.to_csv THEN [writes EXCEPT ![BomCsv] = @ + 1] ELSE writes
    /\ pc' = "bom saved"
    /\ UNCHANGED <<orig, visits, stack, base_df, rename_map, condensed, values, out>>

(* Lines 271-272: the text is printed, or the ValueError of df_to_string   *)
(* ends the call.                                                          *)
BomToString ==
    /\ pc = "bom saved"
    /\ out' = df_to_string(condensed, Top.custom_order)
    /\ pc' = IF out'.error = "" THEN "bom printed" ELSE "bom raised"
    /\ stack' = <<>>
    /\ values' = Top.custom_order.cols
    /\ UNCHANGED <<fs, orig, writes, visits, base_df, rename_map, condensed>>

NextBOM == BomCondense \/ BomToCsv \/ BomToString

SpecBOM == InitBOM /\ [][NextBOM]_vars

(* C11: when the custom column order names a column that the BOM lacks,    *)
(* get_BOM_all_sheets ends in a raised error, and at that moment the call  *)
(* has written or changed no file, whatever to_csv is.                     *)
C11_ErrorBeforeWrite ==
    /\ (pc = "bom printed") => \A k \in 1..Len(values) : values[k] \in Range(BomColumns)
    /\ (pc = "bom raised") => (fs = orig /\ writes[BomCsv] = 0)

-----------------------------------------------------------------------------
(*           More properties of the rewrite (Spec)                         *)

(* The leaves of file f that a rewrite has changed, by their position.     *)
ChangedLeaves(f) ==
    IF fs[f].layout # "sexpdata" THEN {}
    ELSE {k \in 1..Len(Leaves(orig[f])) :
             Leaves(fs[f])[k].reference # Leaves(orig[f])[k].reference}

(* C12: an entry of the rename map is removed from the map when it is      *)
(* applied to a leaf: the map that later symbols and sheets see does not   *)
(* hold the entry of any leaf already renamed.                             *)
C12_AppliedEntryRemoved ==
    \A f \in Files : \A k \in ChangedLeaves(f) :
        \A i \in 1..Len(rename_map) :
            ~(/\ rename_map[i].pID = Leaves(orig[f])[k].path
              /\ rename_map[i].Reference = Leaves(orig[f])[k].reference)

-----------------------------------------------------------------------------
(*        replace_instance_ref on bounded symbols and maps (SpecReplace)   *)

MaxLeaves == 3

MaxEntries == 2

OtherProject == "Q"

(* The path nodes a symbol can have: two instance paths of this project    *)
(* and one of another project.                                             *)
ReplPaths == <<PlanPaths, {<<OtherProject>>}>>

LeafPaths == ReplPaths[1] \cup ReplPaths[2]

LeafRefs == {Ref("R", 1), Ref("R", 2), Unannotated("R")}

(* The entries a plan can hold: the new reference depends on the old       *)
(* reference text alone, the path is one of this project.                  *)
ReplEntries ==
    {[Reference |-> r, NewRef |-> Ref("R", r.num + 2), pID |-> p,
      pref |-> "R", vals |-> r.num + 2] : r \in {Ref("R", 1), Ref("R", 2)}, p \in PlanPaths}

PathRank(p) == <<IF p[1] = ProjectId THEN 0 ELSE 1, Len(p)>>

InitReplace ==
    /\ Idle
    /\ pc = "symbol"
    /\ base_df = <<>>
    /\ rename_map = <<>>
    /\ condensed = <<>>
    /\ values = << [Value |-> "1k", Description |-> "-", Footprint |-> "-",
                    Vrating |-> "-", leaves |-> <<>>] >>
    /\ out = <<>>

(* One more path node of the symbol, with its reference leaf.              *)
ReplAddLeaf ==
    /\ pc = "symbol"
    /\ Len(values[1].leaves) < MaxLeaves
    /\ \E p \in LeafPaths, r \in LeafRefs :
          /\ \A k \in 1..Len(values[1].leaves) :
                LexLess(PathRank(values[1].leaves[k].path), PathRank(p))
          /\ values' = << [values[1] EXCEPT !.leaves =
                              Append(@, [path |-> p, reference |-> r])] >>
    /\ UNCHANGED <<fs, orig, writes, visits, stack, pc, base_df, rename_map, condensed, out>>

(* One more row of the rename map.                                         *)
ReplAddEntry ==
    /\ pc = "symbol"
    /\ Len(rename_map) < MaxEntries
    /\ \E e \in ReplEntries : rename_map' = Append(rename_map, e)
    /\ UNCHANGED <<fs, orig, writes, visits, stack, pc, base_df, condensed, values, out>>

ReplCall ==
    /\ pc = "symbol"
    /\ out' = replace_instance_ref(values[1], rename_map)
    /\ pc' = "replaced"
    /\ UNCHANGED <<fs, orig, writes, visits, stack, base_df, rename_map, condensed, values>>

NextReplace == ReplAddLeaf \/ ReplAddEntry \/ ReplCall

SpecReplace == InitReplace /\ [][NextReplace]_vars

EntryFor(leaf, i) ==
    /\ rename_map[i].pID = leaf.path
    /\ rename_map[i].Reference = leaf.reference

(* C13: replace_instance_ref changes only reference leaves, and only a     *)
(* leaf whose path and text are those of an entry of the rename map, to    *)
(* that entry's new reference; a leaf with no such entry and every other   *)
(* token stay as they were.                                                *)
C13_OnlyMatchingLeaves ==
    pc = "replaced" =>
        /\ out.Value = values[1].Value /\ out.Description = values[1].Description
        /\ out.Footprint = values[1].Footprint /\ out.Vrating = values[1].Vrating
        /\ Len(out.leaves) = Len(values[1].leaves)
        /\ \A k \in 1..Len(out.leaves) :
              /\ out.leaves[k].path = values[1].leaves[k].path
              /\ \/ out.leaves[k].reference = values[1].leaves[k].reference
                 \/ \E i \in 1..Len(rename_map) :
                       /\ EntryFor(values[1].leaves[k], i)
                       /\ out.leaves[k].reference = rename_map[i].NewRef

(* A leaf renamed, beside a leaf of the same text under another instance   *)
(* path and a leaf of another project, both left as they were.             *)
C13_Witness ==
    /\ pc = "replaced"
    /\ \E k, m, n \in 1..Len(out.leaves) :
          /\ out.leaves[k].reference # values[1].leaves[k].reference
          /\ values[1].leaves[m].reference = values[1].leaves[k].reference
          /\ m # k /\ values[1].leaves[m].path[1] = ProjectId
          /\ out.leaves[m] = values[1].leaves[m]
          /\ values[1].leaves[n].path[1] = OtherProject
          /\ values[1].leaves[n].reference = values[1].leaves[k].reference
          /\ out.leaves[n] = values[1].leaves[n]

-----------------------------------------------------------------------------
(*        Which sheets the rewrite touches, and how often (Spec)           *)

(* C14: a sheet in which the rewrite changed no reference leaf is neither  *)
(* backed up nor rewritten: its file and its backup name are as they were  *)
(* before the run.                                                         *)
C14_UnchangedSheetUntouched ==
    pc = "done" =>
        \A f \in {g \in Files : visits[g] >= 1} :
            ChangedLeaves(f) = {} =>
                (fs[f] = orig[f] /\ fs[BackupName(f)] = orig[BackupName(f)])

(* C15: in one rewrite pass every sheet file name is processed at most     *)
(* once, also a file that two parent sheets refer to.                      *)
C15_EachFileOnce == \A f \in Files : visits[f] <= 1

-----------------------------------------------------------------------------
(*            get_BOM_items on bounded lists of symbols (SpecItems)        *)

MaxSymbols == 2

EmptyRef == [pre |-> "", ann |-> FALSE, num |-> 0]

ItemRefs == {Ref("R", 1), Ref("#", 1), Ref("G", 1), EmptyRef}

ItemLeaves ==
    {<<>>} \cup {<<[path |-> p, reference |-> r]>> : p \in LeafPaths, r \in ItemRefs}

ItemComponents ==
    {[Reference |-> q, Value |-> "1k", Description |-> "-", Footprint |-> "-",
      Vrating |-> "-", leaves |-> l] : q \in {Ref("R", 2), Ref("#", 2)}, l \in ItemLeaves}

InitItems ==
    /\ Idle
    /\ pc = "symbols"
    /\ base_df = <<>>
    /\ rename_map = <<>>
    /\ condensed = <<>>
    /\ values = <<>>
    /\ out = <<>>

ItemsAddSymbol ==
    /\ pc = "symbols"
    /\ Len(values) < MaxSymbols
    /\ \E c \in ItemComponents : values' = Append(values, c)
    /\ UNCHANGED <<fs, orig, writes, visits, stack, pc, base_df, rename_map, condensed, out>>

(* get_BOM_items(components, project_id, get_raw=True)                     *)
ItemsCall ==
    /\ pc = "symbols"
    /\ out' = IF get_BOM_items_raises(values, ProjectId)
              THEN [error |-> "ValueError", rows |-> <<>>]
              ELSE [error |-> "", rows |-> get_BOM_items(values, ProjectId)]
    /\ pc' = "items"
    /\ UNCHANGED <<fs, orig, writes, visits, stack, base_df, rename_map, condensed, values>>

NextItems == ItemsAddSymbol \/ ItemsCall

SpecItems == InitItems /\ [][NextItems]_vars

(* A reference the extraction is to skip: empty, or beginning with "#" or  *)
(* with an ignore prefix.                                                  *)
Skipped(ref) == ref = EmptyRef \/ ref.pre = "#" \/ ref.pre \in IgnoreRefs

(* The references of the symbols that are under the project and not to be  *)
(* skipped.                                                                *)
RetainedRefs(components) ==
    Flatten([k \in 1..Len(components) |->
                LET refs == extract_instance_ref(components[k], ProjectId)
                IN  SelectRows([j \in 1..Len(refs) |-> refs[j][1]],
                               [j \in 1..Len(refs) |-> ~Skipped(refs[j][1])])])

(* C17: get_BOM_items raises no error, and its rows are those of the       *)
(* references that are not empty and begin neither with "#" nor with an    *)
(* ignore prefix: a symbol without a reference under the project, or with  *)
(* such references only, contributes no row.                               *)
C17_SkipsWithoutError ==
    pc = "items" =>
        /\ out.error = ""
        /\ [k \in 1..Len(out.rows) |-> out.rows[k].Reference] = RetainedRefs(values)

-----------------------------------------------------------------------------
(*            The order of planning and rewriting (Spec)                   *)

Untouched == fs = orig /\ \A f \in Files : writes[f] = 0 /\ visits[f] = 0

(* base_df carries the column NewRef of line 128.                          *)
Planned_df == \A i \in 1..Len(base_df) : "NewRef" \in DOMAIN base_df[i]

(* C18: in compress_references the extraction of every sheet and the       *)
(* whole planning are complete before the first backup or write: while     *)
(* they run, and when the extraction has failed, no sheet file has been    *)
(* moved, backed up or rewritten, and a file is touched only with the      *)
(* complete plan in hand.                                                  *)
C18_PlanBeforeWrite ==
    /\ pc \in {"start", "extracted", "planned", "parse failed"} => Untouched
    /\ ~Untouched => (condensed # <<>> /\ Planned_df)

(* The extraction has failed, and no file has been touched.                *)
C18_Witness == pc = "parse failed" /\ Untouched /\ fs[RootFile] # NoFile

-----------------------------------------------------------------------------
(*    The traversal of parse_file on any sheet graph, cycles included,     *)
(*    and replace_references after it (SpecCycle)                          *)

(* The interpreter's recursion limit, in frames of parse_file; no sheet    *)
(* hierarchy without a cycle over Files is deeper.                         *)
RecursionLimit == 4

(* No sheet descriptor, or one.                                            *)
CycleLists(S) == {<<>>} \cup {<<f>> : f \in S}

CycleProject(rs, as, bs) ==
    LET sheets == [f \in Files |-> IF f = "root" THEN rs ELSE IF f = "a" THEN as ELSE bs]
    IN  [n \in Files \cup {BackupName(f) : f \in Files} |->
            IF n \in Files
            THEN SheetFile(<< <<ProjectId, SheetUuid(n, 0)>> >>, 1, sheets[n])
            ELSE NoFile]

InitCycle ==
    /\ \E rs \in SheetLists({"a", "b"}), as \in CycleLists({"root", "a", "b"}),
          bs \in CycleLists({"root", "a"}) :
          fs = CycleProject(rs, as, bs)
    /\ orig = fs
    /\ writes = [f \in Files |-> 0]
    /\ visits = [f \in Files |-> 0]
    /\ stack = <<>>
    /\ pc = "start"
    /\ base_df = <<>>
    /\ rename_map = <<>>
    /\ condensed = <<>>
    /\ values = <<>>
    /\ out = <<>>

(* A call of parse_file: next is the sheet descriptor the loop of lines    *)
(* 68-74 comes to next.                                                    *)
ParseFrame(filename) == [file |-> filename, next |-> 1]

(* What the traversal is in after the recursion limit is hit and the       *)
(* error is lost.                                                          *)
AfterOverflowGoesOn == "parsing"

(* The interpreter raises RecursionError in the call that exceeds the      *)
(* limit; nothing catches it.                                              *)
AfterOverflow == "RecursionError"

(* compress_references, line 97: parse_file on the root sheet.             *)
ParseCall ==
    /\ pc = "start"
    /\ stack' = <<ParseFrame(RootFile)>>
    /\ pc' = "parsing"
    /\ UNCHANGED <<fs, orig, writes, visits, base_df, rename_map, condensed, values, out>>

(* parse_file, lines 68-72: the recursive call for the next descriptor.    *)
ParseEnter ==
    /\ pc = "parsing" /\ stack # <<>>
    /\ Top.next <= Len(fs[Top.file].sheets)
    /\ Len(stack) < RecursionLimit
    /\ stack' = Append(SetTop([Top EXCEPT !.next = @ + 1]),
                       ParseFrame(fs[Top.file].sheets[Top.next]))
    /\ UNCHANGED <<fs, orig, writes, visits, pc, base_df, rename_map, condensed, values, out>>

(* The same call with the stack at the recursion limit.                    *)
ParseOverflow ==
    /\ pc = "parsing" /\ stack # <<>>
    /\ Top.next <= Len(fs[Top.file].sheets)
    /\ Len(stack) >= RecursionLimit
    /\ stack' = <<>>
    /\ pc' = AfterOverflow
    /\ UNCHANGED <<fs, orig, writes, visits, base_df, rename_map, condensed, values, out>>

(* parse_file, line 76: the rows go back to the caller; the outermost call *)
(* returns base_df to compress_references.                                 *)
ParseReturn ==
    /\ pc = "parsing" /\ stack # <<>>
    /\ Top.next > Len(fs[Top.file].sheets)
    /\ stack' = SubSeq(stack, 1, Len(stack) - 1)
    /\ pc' = IF Len(stack) = 1 THEN "extracted" ELSE pc
    /\ base_df' = IF Len(stack) = 1 THEN parse_file(fs, RootFile, ProjectId) ELSE base_df
    /\ UNCHANGED <<fs, orig, writes, visits, rename_map, condensed, values, out>>

NextCycle ==
    \/ ParseCall \/ ParseEnter \/ ParseOverflow \/ ParseReturn
    \/ Plan \/ CallReplace
    \/ ReadSheet \/ BackupSheet \/ WriteSheet \/ WriteFails
    \/ Recurse \/ Return

(* The planning as a step of the control state: Plan can be taken exactly  *)
(* when pc = "extracted", and every step of Plan is one of these.          *)
PlanStep == pc = "extracted" /\ pc' = "planned"

ParseStep == ParseCall \/ ParseEnter \/ ParseOverflow \/ ParseReturn

RewriteStep ==
    \/ CallReplace \/ ReadSheet \/ BackupSheet \/ WriteSheet \/ WriteFails
    \/ Recurse \/ Return

(* One sequential process: it runs on as long as it has a step to take.    *)
SpecCycle ==
    /\ InitCycle /\ [][NextCycle]_vars
    /\ WF_vars(ParseStep) /\ WF_pc(PlanStep) /\ WF_vars(RewriteStep)

Children(f) == Range(orig[f].sheets)

RECURSIVE Closure(_)
Closure(S) ==
    LET T == S \cup UNION {Children(f) : f \in S}
    IN  IF T = S THEN S ELSE Closure(T)

(* A sheet file reachable from the root is reachable from itself.          *)
CycleFromRoot == \E f \in Closure({RootFile}) : f \in Closure(Children(f))

=============================================================================
